---- MODULE Spec2Model ----
(***************************************************************************)
(* Data source model (packages/back-end/src/models/DataSourceModel.ts) and *)
(* the StringArrayField form control.                                      *)
(*                                                                         *)
(* Four specifications share the module:                                   *)
(*   Spec         the CRUD functions over the DataSource collection        *)
(*   SpecUpgrade  upgradeDatasourceObject applied to one object, over the  *)
(*                whole bounded domain of settings shapes                  *)
(*   SpecRead     the read functions over a stored record of any shape     *)
(*   SpecField    the StringArrayField event handlers                      *)
(*                                                                         *)
(* JavaScript values.  An optional property is a sequence of length 0      *)
(* (absent / undefined) or 1 (present).  A call's outcome is a record      *)
(* [err, val]: err = "" and val = <<x>> when it returned x, err = the      *)
(* error and val = <<>> when it threw.                                     *)
(***************************************************************************)
EXTENDS Integers, Sequences, FiniteSets, TLC

VARIABLES
  fileConfig,   \* usingFileConfig(): the process-wide mode flag
  store,        \* the DataSource collection, in insertion order
  pending,      \* the createDataSource calls waiting in an await
  uniq,         \* the number of ids uniqid has handed out
  last,         \* the last step of a model function: arguments and outcome
  datasource,   \* SpecUpgrade: the object handed to upgradeDatasourceObject
  returned,     \* SpecUpgrade: what the successive applications returned
  value,        \* StringArrayField: the value prop
  inputValue,   \* StringArrayField: the useState("") text
  event,        \* StringArrayField: the last event handled and what it did
  base,         \* StringArrayField: value at the last change that was no entry
  commits       \* StringArrayField: the tokens committed since, in order

vars == <<fileConfig, store, pending, uniq, last, datasource, returned,
          value, inputValue, event, base, commits>>

crudVars == <<fileConfig, store, pending, uniq, last>>
upgradeVars == <<datasource, returned>>
fieldVars == <<value, inputValue, event, base, commits>>

None == <<>>
Some(x) == <<x>>

Ok(x) == [err |-> "", val |-> <<x>>]
Throw(e) == [err |-> e, val |-> <<>>]

\* ---------------------------------------------------------------- bounds
MaxApply == 2
MaxDocs == 2
MaxPending == 2
MaxUniq == 2
MaxTags == 3

\* ------------------------------------------------- settings (free-form)
DefaultIds ==
  << [id |-> "user_id", description |-> "Logged-in user id"],
     [id |-> "anonymous_id", description |-> "Anonymous visitor id"] >>

CustomIds == << [id |-> "device_id", description |-> "Device id"] >>

CustomExposure ==
  [main |-> [description |-> "Custom exposures",
             dimensions |-> <<"browser">>,
             ids |-> <<"device_id">>,
             query |-> "SELECT * FROM exposures"]]

\* JavaScript truthiness of an optional string: undefined and "" are falsy.
TruthyString(o) == o # None /\ o[1] # ""

\* JavaScript truthiness of an optional object or array: only undefined is
\* falsy (an empty array is truthy).
TruthyObject(o) == o # None

\* settings.queries.exposure synthesized from the legacy experimentsQuery.
MainExposure(settings) ==
  [main |-> [description |-> "Main experiment exposures table",
             dimensions |-> IF TruthyObject(settings.experimentDimensions)
                            THEN settings.experimentDimensions[1]
                            ELSE <<>>,
             ids |-> <<"user_id", "anonymous_id">>,
             query |-> settings.queries[1].experimentsQuery[1]]]

\* A plausible slip: the default ids are added to whatever is there, on every
\* call, instead of only when ids is missing.
UpgradeAppendingIds(ds) ==
  IF ds.settings = None THEN Throw("TypeError")
  ELSE LET s == ds.settings[1]
           old == IF s.ids = None THEN <<>> ELSE s.ids[1]
       IN Ok([ds EXCEPT !.settings = Some([s EXCEPT !.ids = Some(old \o DefaultIds)])])

upgradeDatasourceObject(ds) ==
  LET settings == ds.settings IN
  IF settings = None
  THEN \* !settings?.ids is true and settings.ids = ... throws
       Throw("TypeError")
  ELSE LET s0 == settings[1]
           s1 == IF ~TruthyObject(s0.ids)
                 THEN [s0 EXCEPT !.ids = Some(DefaultIds)]
                 ELSE s0
           s2 == IF /\ TruthyObject(s1.queries)
                    /\ TruthyString(s1.queries[1].experimentsQuery)
                    /\ ~TruthyObject(s1.queries[1].exposure)
                 THEN [s1 EXCEPT !.queries =
                         Some([s1.queries[1] EXCEPT
                                 !.exposure = Some(MainExposure(s1))])]
                 ELSE s1
       IN Ok([ds EXCEPT !.settings = Some(s2)])

\* ------------------------------------------ the bounded domain of shapes
IdsShapes == {None, Some(<<>>), Some(CustomIds)}
QueryTexts == {None, Some(""), Some("SELECT * FROM experiments")}
ExposureShapes == {None, Some(CustomExposure)}
QueriesShapes ==
  {None} \cup
  {Some([experimentsQuery |-> q, exposure |-> e]) :
     q \in QueryTexts, e \in ExposureShapes}
DimensionShapes == {None, Some(<<>>), Some(<<"country">>)}

SettingsShapes ==
  {None} \cup
  {Some([ids |-> i, queries |-> q, experimentDimensions |-> d]) :
     i \in IdsShapes, q \in QueriesShapes, d \in DimensionShapes}

Now == 1

Doc(id, organization, settings) ==
  [id |-> id, name |-> "main", organization |-> organization,
   type |-> "postgres", settings |-> settings,
   dateCreated |-> Now, dateUpdated |-> Now, params |-> "enc:host=db"]

\* ------------------------------------------------------------ SpecUpgrade
InitUpgrade ==
  /\ datasource \in {Doc("ds_1", "org_a", s) : s \in SettingsShapes}
  /\ returned = <<>>

IdleUpgrade ==
  /\ datasource = Doc("ds_1", "org_a", None)
  /\ returned = <<>>

\* One call upgradeDatasourceObject(datasource): the object is changed in
\* place and returned; a throw leaves it as it was.
Upgrade ==
  /\ Len(returned) < MaxApply
  /\ LET r == upgradeDatasourceObject(datasource) IN
       /\ returned' = Append(returned, r)
       /\ datasource' = IF r.err = "" THEN r.val[1] ELSE datasource
  /\ UNCHANGED <<crudVars, fieldVars>>

\* ------------------------------------------------ the DataSource collection
Orgs == {"org_a", "org_b"}
Ids == {"ds_1", "ds_kx3g"}
NoId == ""

\* uniqid("ds_") hands out an id of the library's choosing; a caller may pass
\* such an id back as an explicit one.
UniqIds == <<"ds_kx3g", "ds_kx3h", "ds_kx3i">>

\* uniqid("ds_"): an id it has not handed out before.
uniqid == UniqIds[uniq + 1]

LegacySettings ==
  Some([ids |-> None,
        queries |-> Some([experimentsQuery |-> Some("SELECT * FROM experiments"),
                          exposure |-> None]),
        experimentDimensions |-> None])

\* settings: {}
EmptySettings ==
  Some([ids |-> None, queries |-> None, experimentDimensions |-> None])

ModernSettings ==
  Some([ids |-> Some(CustomIds),
        queries |-> Some([experimentsQuery |-> Some(""),
                          exposure |-> Some(CustomExposure)]),
        experimentDimensions |-> Some(<<"country">>)])

\* The document index { id: 1, organization: 1 }, unique.
Matches(doc, id, organization) ==
  doc.id = id /\ doc.organization = organization

UniqueIndexAllows(coll) ==
  \A i, j \in 1..Len(coll) :
    i # j => ~Matches(coll[i], coll[j].id, coll[j].organization)

\* The first document the filter { id, organization } selects, 0 when none.
FirstMatch(coll, id, organization) ==
  LET hits == {i \in 1..Len(coll) : Matches(coll[i], id, organization)}
  IN IF hits = {} THEN 0 ELSE CHOOSE i \in hits : \A j \in hits : i <= j

usingFileConfig == fileConfig

\* The data sources of config.yml, handed out under the asking organization.
getConfigDatasources(organization) ==
  << [id |-> "ds_config", name |-> "config", organization |-> organization,
      type |-> "postgres", settings |-> ModernSettings,
      dateCreated |-> Now, dateUpdated |-> Now, params |-> "enc:host=db"] >>

encryptParams(params) ==
  CASE params = "host=db" -> "enc:host=db"
    [] params = "rt_long" -> "enc:rt_long"
    [] OTHER -> "enc:"

\* The schema keeps mongoose's default minimize: an object left with no
\* property is dropped, from the inside out (an empty array stays).
Minimize(settings) ==
  IF settings = None THEN None
  ELSE LET queries ==
             IF settings[1].queries =
                  Some([experimentsQuery |-> None, exposure |-> None])
             THEN None
             ELSE settings[1].queries
           s == [settings[1] EXCEPT !.queries = queries]
       IN IF s = [ids |-> None, queries |-> None, experimentDimensions |-> None]
          THEN None
          ELSE Some(s)

\* doc.toJSON()
toJSON(doc) == [doc EXCEPT !.settings = Minimize(doc.settings)]

\* The document DataSourceModel.create(datasource) writes.
Saved(ds) == [ds EXCEPT !.settings = Minimize(ds.settings)]

toInterface(doc) == upgradeDatasourceObject(toJSON(doc))

\* list[0] || null
First(list) == IF list = <<>> THEN <<>> ELSE <<list[1]>>

\* A read's outcome: ret is the list returned (for a single record, the empty
\* list stands for null).
Returned(list) == [err |-> "", ret |-> list]
Thrown(e) == [err |-> e, ret |-> <<>>]

RECURSIVE MapToInterface(_)
MapToInterface(docs) ==
  IF docs = <<>> THEN Returned(<<>>)
  ELSE LET head == toInterface(docs[1])
           rest == MapToInterface(Tail(docs))
       IN IF head.err # "" THEN Thrown(head.err)
          ELSE IF rest.err # "" THEN rest
          ELSE Returned(<<head.val[1]>> \o rest.ret)

getDataSourcesByOrganization(organization) ==
  IF usingFileConfig THEN Returned(getConfigDatasources(organization))
  ELSE MapToInterface(SelectSeq(store, LAMBDA d : d.organization = organization))

\* A plausible slip: the record is handed back as stored, not upgraded.
GetByIdNotUpgraded(id, organization) ==
  LET i == FirstMatch(store, id, organization)
  IN IF i = 0 THEN Returned(<<>>) ELSE Returned(<<store[i]>>)

getDataSourceById(id, organization) ==
  IF usingFileConfig
  THEN Returned(First(SelectSeq(getConfigDatasources(organization),
                                LAMBDA d : d.id = id)))
  ELSE LET i == FirstMatch(store, id, organization)
       IN IF i = 0 THEN Returned(<<>>)
          ELSE LET r == toInterface(store[i])
               IN IF r.err # "" THEN Thrown(r.err) ELSE Returned(r.val)

getOrganizationsWithDatasources ==
  IF usingFileConfig THEN {}
  ELSE {store[i].organization : i \in 1..Len(store)}

RemoveAt(list, i) == SubSeq(list, 1, i - 1) \o SubSeq(list, i + 1, Len(list))

\* ---------------------------------------------------------------- writes
\* A write's outcome: the error thrown ("" when none), the collection it
\* leaves, the record returned, the calls made in order, and the datasource
\* object built (None when the call did not get that far).
Outcome(err, coll, ret, calls, ds) ==
  [err |-> err, store |-> coll, ret |-> ret, calls |-> calls, ds |-> ds]

\* E11000: the document would share (id, organization) with another one.
DuplicateKey(coll, doc, self) ==
  \E j \in 1..Len(coll) :
    j # self /\ Matches(coll[j], doc.id, doc.organization)

\* A plausible slip: the guard on the config.yml mode is missing.
DeleteWithoutGuard(id, organization) ==
  LET i == FirstMatch(store, id, organization)
  IN IF i = 0 THEN Outcome("", store, <<>>, <<"deleteOne">>, None)
     ELSE Outcome("", RemoveAt(store, i), <<>>, <<"deleteOne">>, None)

\* A plausible slip: the filter forgets the organization.
DeleteByIdOnly(id, organization) ==
  IF usingFileConfig
  THEN Outcome("Cannot delete. Data sources managed by config.yml",
               store, <<>>, <<>>, None)
  ELSE LET hits == {i \in 1..Len(store) : store[i].id = id}
           i == IF hits = {} THEN 0 ELSE CHOOSE k \in hits : \A j \in hits : k <= j
       IN IF i = 0 THEN Outcome("", store, <<>>, <<"deleteOne">>, None)
          ELSE Outcome("", RemoveAt(store, i), <<>>, <<"deleteOne">>, None)

\* A plausible slip: deleteMany with a filter on the organization alone.
DeleteWholeOrganization(id, organization) ==
  IF usingFileConfig
  THEN Outcome("Cannot delete. Data sources managed by config.yml",
               store, <<>>, <<>>, None)
  ELSE Outcome("", SelectSeq(store, LAMBDA d : d.organization # organization),
               <<>>, <<"deleteOne">>, None)

deleteDatasourceById(id, organization) ==
  IF usingFileConfig
  THEN Outcome("Cannot delete. Data sources managed by config.yml",
               store, <<>>, <<>>, None)
  ELSE LET i == FirstMatch(store, id, organization)
       IN IF i = 0 THEN Outcome("", store, <<>>, <<"deleteOne">>, None)
          ELSE Outcome("", RemoveAt(store, i), <<>>, <<"deleteOne">>, None)

\* The object literal of createDataSource.
NewDatasource(id, name, organization, type, settings, params) ==
  [id |-> id, name |-> name, organization |-> organization, type |-> type,
   settings |-> settings, dateCreated |-> Now, dateUpdated |-> Now,
   params |-> encryptParams(params)]

\* A createDataSource call waiting in an await: its arguments, the id it
\* settled on, the await it is in (pc: "getToken" of line 132, "test" of line
\* 150, "create" of line 151 before the driver has acted, "created" after),
\* the calls it has made, the datasource object once built, the error
\* DataSourceModel.create is to reject with ("" when it inserted), and, kept
\* for the record only (the code does not look): whether
\* testDataSourceConnection returned for it, and whether the id it was given
\* was stored under the organization when it was called.
Frame(organization, name, type, params, settings, id, theId, pc, calls, ds) ==
  [organization |-> organization, name |-> name, type |-> type,
   params |-> params, settings |-> settings, id |-> id, theId |-> theId,
   pc |-> pc, calls |-> calls, ds |-> ds, answer |-> "", tested |-> FALSE,
   existed |-> id # NoId /\ FirstMatch(store, theId, organization) # 0]

Waiting(frame) == [err |-> "", frame |-> Some(frame)]
Failed(e) == [err |-> e, frame |-> None]

\* createDataSource up to its first await: oauth2Client.getToken for
\* google_analytics, testDataSourceConnection otherwise.  fresh is the id
\* uniqid("ds_") hands out when asked.
createDataSource(organization, name, type, params, settings, id, fresh) ==
  IF usingFileConfig
  THEN Failed("Cannot add. Data sources managed by config.yml")
  ELSE LET theId == IF id = NoId THEN fresh ELSE id
           c1 == IF id = NoId THEN <<"uniqid">> ELSE <<>>
       IN IF type = "google_analytics"
          THEN Waiting(Frame(organization, name, type, params, settings, id,
                             theId, "getToken", c1 \o <<"getToken">>, None))
          ELSE Waiting(Frame(organization, name, type, params, settings, id,
                             theId, "test",
                             c1 \o <<"testDataSourceConnection">>,
                             Some(NewDatasource(theId, name, organization,
                                                type, settings, params))))

\* createDataSource from the return of getToken to the next await.  token is
\* "throw", or the refresh_token of the answer ("" when it has none).
afterGetToken(frame, token) ==
  IF token = "throw" THEN Failed("invalid_grant")
  ELSE Waiting([frame EXCEPT
                  !.params = token,
                  !.pc = "test",
                  !.calls = @ \o <<"testDataSourceConnection">>,
                  !.ds = Some(NewDatasource(frame.theId, frame.name,
                                            frame.organization, frame.type,
                                            frame.settings, token))])

\* A plausible slip: the test's failure is swallowed and the record created
\* all the same.
CreateDespiteTest(frame, testOk) ==
  Waiting([frame EXCEPT !.pc = "create", !.calls = @ \o <<"create">>])

\* createDataSource from the return of testDataSourceConnection to the await
\* of DataSourceModel.create: testOk says whether the test returned rather
\* than threw.  The call hands the object to the driver and waits; the
\* collection is as it was.
afterTest(frame, testOk) ==
  IF ~testOk
  THEN Failed("connection failed")
  ELSE Waiting([frame EXCEPT !.pc = "create", !.calls = @ \o <<"create">>])

\* The driver's answer to an insert: the error it refuses with ("" when it
\* inserted) and the collection left.
Answer(err, coll) == [err |-> err, store |-> coll]

\* A plausible slip: the collection has no unique index.
InsertWithoutIndex(doc) == Answer("", Append(store, Saved(doc)))

\* DataSourceModel.create(datasource) at the database, some time after the
\* call of line 151 and before its answer: the document is inserted, or
\* refused by the unique index, on the collection as it is by then.
create(doc) ==
  IF DuplicateKey(store, doc, 0)
  THEN Answer("E11000 duplicate key", store)
  ELSE Answer("", Append(store, Saved(doc)))

\* createDataSource from the answer of DataSourceModel.create to its end:
\* the rejection is thrown, or the document created (model, not what the
\* collection holds by now) goes through toInterface.
afterCreate(frame) ==
  IF frame.answer # ""
  THEN Outcome(frame.answer, store, <<>>, frame.calls, frame.ds)
  ELSE LET r == toInterface(Saved(frame.ds[1]))
       IN IF r.err # ""
          THEN Outcome(r.err, store, <<>>, frame.calls, frame.ds)
          ELSE Outcome("", store, r.val, frame.calls, frame.ds)

\* Partial<DataSourceInterface>: each field is None (not named) or Some(v).
NoUpdates ==
  [id |-> None, name |-> None, organization |-> None, type |-> None,
   settings |-> None, dateCreated |-> None, dateUpdated |-> None,
   params |-> None]

Fields ==
  {"id", "name", "organization", "type", "settings", "dateCreated",
   "dateUpdated", "params"}

Named(updates) == {f \in Fields : updates[f] # None}

Pick(update, old) == IF update = None THEN old ELSE update[1]

\* { $set: updates } on one document.
Set(doc, updates) ==
  [id |-> Pick(updates.id, doc.id),
   name |-> Pick(updates.name, doc.name),
   organization |-> Pick(updates.organization, doc.organization),
   type |-> Pick(updates.type, doc.type),
   settings |-> Pick(updates.settings, doc.settings),
   dateCreated |-> Pick(updates.dateCreated, doc.dateCreated),
   dateUpdated |-> Pick(updates.dateUpdated, doc.dateUpdated),
   params |-> Pick(updates.params, doc.params)]

\* A plausible slip: { upsert: true }.
UpdateUpserting(id, organization, updates) ==
  IF usingFileConfig
  THEN Outcome("Cannot update. Data sources managed by config.yml",
               store, <<>>, <<>>, None)
  ELSE LET i == FirstMatch(store, id, organization)
       IN IF i = 0
          THEN Outcome("", Append(store, Set(Doc(id, organization, None), updates)),
                       <<>>, <<"updateOne">>, None)
          ELSE IF DuplicateKey(store, Set(store[i], updates), i)
          THEN Outcome("E11000 duplicate key", store, <<>>, <<"updateOne">>, None)
          ELSE Outcome("", [store EXCEPT ![i] = Set(store[i], updates)],
                       <<>>, <<"updateOne">>, None)

updateDataSource(id, organization, updates) ==
  IF usingFileConfig
  THEN Outcome("Cannot update. Data sources managed by config.yml",
               store, <<>>, <<>>, None)
  ELSE LET i == FirstMatch(store, id, organization)
       IN IF i = 0 THEN Outcome("", store, <<>>, <<"updateOne">>, None)
          ELSE IF DuplicateKey(store, Set(store[i], updates), i)
          THEN Outcome("E11000 duplicate key", store, <<>>, <<"updateOne">>, None)
          ELSE Outcome("", [store EXCEPT ![i] = Set(store[i], updates)],
                       <<>>, <<"updateOne">>, None)

\* ------------------------------------------------------- the calls made
Profiles ==
  { [name |-> "main", type |-> "postgres", params |-> "host=db",
     settings |-> LegacySettings],
    [name |-> "ga", type |-> "google_analytics", params |-> "auth_code",
     settings |-> EmptySettings] }

\* The createDataSource calls made: a postgres source under an explicit id
\* and a google_analytics source that leaves the id to uniqid, both for
\* org_a (updateDataSource moves records to org_b).
Requests ==
  { [organization |-> "org_a", profile |-> p,
     id |-> IF p.type = "google_analytics" THEN NoId ELSE "ds_1"] :
      p \in Profiles }

TokenOutcomes == {"throw", "rt_long"}

\* The updates given: a rename, and a move to org_b (which the unique index
\* refuses when the id is stored there).
UpdateInputs ==
  { [NoUpdates EXCEPT !.name = Some("renamed"), !.dateUpdated = Some(2)],
    [NoUpdates EXCEPT !.organization = Some("org_b")] }

\* The record of a call: its arguments, the error thrown ("" when none), the
\* records returned, the calls it made, the object createDataSource built,
\* the number of documents its filter selected, and the organizations
\* getOrganizationsWithDatasources returned, and what
\* testDataSourceConnection answered in the step ("none" when the step is not
\* its return).
Call(op, id, organization, updates, r, matched, orgs) ==
  [op |-> op, id |-> id, organization |-> organization, updates |-> updates,
   err |-> r.err, ret |-> r.ret, calls |-> r.calls, ds |-> r.ds,
   matched |-> matched, orgs |-> orgs, test |-> "none"]

\* The n of the driver's answer to updateOne and deleteOne.
Selected(id, organization) ==
  IF usingFileConfig \/ FirstMatch(store, id, organization) = 0 THEN 0 ELSE 1

NoCall ==
  [op |-> "none", id |-> NoId, organization |-> "", updates |-> NoUpdates,
   err |-> "", ret |-> <<>>, calls |-> <<>>, ds |-> None, matched |-> 0,
   orgs |-> {}, test |-> "none"]

SeedDoc == Doc("ds_1", "org_a", LegacySettings)

InitCrud ==
  /\ fileConfig \in BOOLEAN
  /\ store \in {<<>>, <<SeedDoc>>}
  /\ pending = <<>>
  /\ uniq = 0
  /\ last = NoCall

IdleCrud ==
  /\ fileConfig = FALSE
  /\ store = <<>>
  /\ pending = <<>>
  /\ uniq = 0
  /\ last = NoCall

Write(op, id, organization, updates, r, matched) ==
  /\ Len(r.store) <= MaxDocs
  /\ store' = r.store
  /\ last' = Call(op, id, organization, updates, r, matched, {})
  /\ UNCHANGED <<fileConfig, uniq, upgradeVars, fieldVars>>

\* A step of createDataSource that touches no document: it throws and the
\* call is over (the frames left are over, the calls made are calls), or it
\* goes on to wait (the frames are waiting).
Proceed(op, id, organization, r, waiting, over, calls) ==
  /\ pending' = IF r.err # "" THEN over ELSE waiting
  /\ last' = Call(IF r.err # "" THEN "create" ELSE op, id, organization,
                  NoUpdates,
                  [err |-> r.err, ret |-> <<>>,
                   calls |-> IF r.err # "" THEN calls ELSE r.frame[1].calls,
                   ds |-> IF r.err # "" THEN None ELSE r.frame[1].ds],
                  0, {})
  /\ UNCHANGED <<fileConfig, store, upgradeVars, fieldVars>>

CreateCall ==
  \E q \in Requests :
    LET asks == ~usingFileConfig /\ q.id = NoId
        r == createDataSource(q.organization, q.profile.name, q.profile.type,
                              q.profile.params, q.profile.settings, q.id,
                              IF asks THEN uniqid ELSE NoId)
    IN /\ asks => uniq < MaxUniq
       /\ r.err = "" => Len(pending) < MaxPending
       /\ uniq' = IF asks THEN uniq + 1 ELSE uniq
       /\ Proceed("createCall", q.id, q.organization, r,
                  IF r.err = "" THEN Append(pending, r.frame[1]) ELSE pending,
                  pending, <<>>)

CreateTokenReturn ==
  \E i \in 1..Len(pending), token \in TokenOutcomes :
    /\ pending[i].pc = "getToken"
    /\ LET r == afterGetToken(pending[i], token)
       IN Proceed("createToken", pending[i].id, pending[i].organization, r,
                  IF r.err = "" THEN [pending EXCEPT ![i] = r.frame[1]]
                  ELSE pending,
                  RemoveAt(pending, i), pending[i].calls)
    /\ UNCHANGED uniq

\* The return of testDataSourceConnection; the step records what the test
\* answered, in last and in the frame that goes on.
CreateTestReturn ==
  \E i \in 1..Len(pending), testOk \in BOOLEAN :
    /\ pending[i].pc = "test"
    /\ LET r == afterTest(pending[i], testOk)
       IN /\ pending' = IF r.err # "" THEN RemoveAt(pending, i)
                        ELSE [pending EXCEPT
                                ![i] = [r.frame[1] EXCEPT !.tested = testOk]]
          /\ last' = [Call(IF r.err # "" THEN "create" ELSE "createTest",
                           pending[i].id, pending[i].organization, NoUpdates,
                           [err |-> r.err, ret |-> <<>>,
                            calls |-> IF r.err # "" THEN pending[i].calls
                                      ELSE r.frame[1].calls,
                            ds |-> pending[i].ds],
                           0, {})
                        EXCEPT !.test = IF testOk THEN "returned" ELSE "threw"]
    /\ UNCHANGED <<fileConfig, store, uniq, upgradeVars, fieldVars>>

\* The database acts on an insert handed to it.  For this step err is the
\* error the insert is refused with, which the call throws once it resumes.
Insert ==
  \E i \in 1..Len(pending) :
    /\ pending[i].pc = "create"
    /\ LET r == create(pending[i].ds[1])
       IN /\ Len(r.store) <= MaxDocs
          /\ store' = r.store
          /\ pending' = [pending EXCEPT ![i] = [@ EXCEPT !.pc = "created",
                                                         !.answer = r.err]]
          /\ last' = Call("createInsert", pending[i].id,
                          pending[i].organization, NoUpdates,
                          [err |-> r.err, ret |-> <<>>,
                           calls |-> pending[i].calls, ds |-> pending[i].ds],
                          0, {})
    /\ UNCHANGED <<fileConfig, uniq, upgradeVars, fieldVars>>

CreateReturn ==
  \E i \in 1..Len(pending) :
    /\ pending[i].pc = "created"
    /\ pending' = RemoveAt(pending, i)
    /\ Write("create", pending[i].id, pending[i].organization, NoUpdates,
             afterCreate(pending[i]), 0)

Update ==
  \E id \in Ids, organization \in Orgs, updates \in UpdateInputs :
    /\ Write("update", id, organization, updates,
             updateDataSource(id, organization, updates),
             Selected(id, organization))
    /\ UNCHANGED pending

Delete ==
  \E id \in Ids, organization \in Orgs :
    /\ Write("delete", id, organization, NoUpdates,
             deleteDatasourceById(id, organization),
             Selected(id, organization))
    /\ UNCHANGED pending

Read(op, id, organization, r, orgs) ==
  /\ last' = [op |-> op, id |-> id, organization |-> organization,
              updates |-> NoUpdates, err |-> r.err, ret |-> r.ret,
              calls |-> <<>>, ds |-> None, matched |-> 0, orgs |-> orgs,
              test |-> "none"]
  /\ UNCHANGED <<fileConfig, store, pending, uniq, upgradeVars, fieldVars>>

GetById ==
  \E id \in Ids, organization \in Orgs :
    Read("getById", id, organization, getDataSourceById(id, organization), {})

GetByOrganization ==
  \E organization \in Orgs :
    Read("getByOrganization", NoId, organization,
         getDataSourcesByOrganization(organization), {})

GetOrganizations ==
  Read("getOrganizations", NoId, "", Returned(<<>>),
       getOrganizationsWithDatasources)

\* ----------------------------------------------------- StringArrayField
Texts == {"", "red", "blue"}
Keys == {"Enter", "Tab", " ", ",", "a", "Backspace"}
CommitKeys == {"Enter", "Tab", " ", ","}

\* What a handler did: onChange is the argument it called the onChange prop
\* with (None when it did not call it), inputValue the state it leaves,
\* prevented whether it called event.preventDefault().
Handled(called, text, prevented) ==
  [onChange |-> called, inputValue |-> text, prevented |-> prevented]

\* A plausible slip: the pending text is kept after the commit.
KeyDownKeepingInput(key) ==
  IF inputValue = "" THEN Handled(None, inputValue, FALSE)
  ELSE IF key \in CommitKeys
       THEN Handled(Some(value \o <<inputValue>>), inputValue, TRUE)
       ELSE Handled(None, inputValue, FALSE)

onKeyDown(key) ==
  IF inputValue = "" THEN Handled(None, inputValue, FALSE)
  ELSE IF key \in CommitKeys
       THEN Handled(Some(value \o <<inputValue>>), "", TRUE)
       ELSE Handled(None, inputValue, FALSE)

\* A plausible slip: the guard on the empty pending text is missing.
BlurWithoutGuard == Handled(Some(value \o <<inputValue>>), "", FALSE)

onBlur ==
  IF inputValue = "" THEN Handled(None, inputValue, FALSE)
  ELSE Handled(Some(value \o <<inputValue>>), "", FALSE)

\* The lists react-select's own onChange hands over: one tag removed, or all
\* of them cleared.
SelectChanges == {RemoveAt(value, i) : i \in 1..Len(value)} \cup {<<>>}

InitField ==
  /\ value \in {<<>>, <<"red">>}
  /\ inputValue = ""
  /\ event = [kind |-> "mount", key |-> "", onChange |-> None, prevented |-> FALSE]
  /\ base = value
  /\ commits = <<>>

IdleField ==
  /\ value = <<>>
  /\ inputValue = ""
  /\ event = [kind |-> "mount", key |-> "", onChange |-> None, prevented |-> FALSE]
  /\ base = <<>>
  /\ commits = <<>>

\* The handler's effects: the useState setter, and the onChange prop, which
\* the parent answers by handing the list back as the value prop before the
\* next event (a controlled component).
Apply(kind, key, h) ==
  /\ h.onChange # None => Len(value) < MaxTags
  /\ inputValue' = h.inputValue
  /\ value' = IF h.onChange = None THEN value ELSE h.onChange[1]
  /\ commits' = IF h.onChange = None THEN commits ELSE Append(commits, inputValue)
  /\ base' = base
  /\ event' = [kind |-> kind, key |-> key, onChange |-> h.onChange,
               prevented |-> h.prevented]

OnInputChange ==
  /\ \E val \in Texts :
       /\ inputValue' = val
       /\ event' = [kind |-> "input", key |-> "", onChange |-> None,
                    prevented |-> FALSE]
  /\ UNCHANGED <<value, base, commits, crudVars, upgradeVars>>

OnKeyDown ==
  /\ \E key \in Keys : Apply("keydown", key, onKeyDown(key))
  /\ UNCHANGED <<crudVars, upgradeVars>>

OnBlur ==
  /\ Apply("blur", "", onBlur)
  /\ UNCHANGED <<crudVars, upgradeVars>>

SelectOnChange ==
  /\ \E val \in SelectChanges :
       /\ value' = val
       /\ base' = val
       /\ commits' = <<>>
       /\ event' = [kind |-> "select", key |-> "", onChange |-> Some(val),
                    prevented |-> FALSE]
  /\ UNCHANGED <<inputValue, crudVars, upgradeVars>>

NextField == OnInputChange \/ OnKeyDown \/ OnBlur \/ SelectOnChange

\* --------------------------------------------------------- specifications
Next ==
  \/ CreateCall \/ CreateTokenReturn \/ CreateTestReturn \/ Insert
  \/ CreateReturn
  \/ Update \/ Delete \/ GetById \/ GetByOrganization \/ GetOrganizations

Init == InitCrud /\ IdleUpgrade /\ IdleField

Spec == Init /\ [][Next]_vars

\* The read functions alone, over a collection holding a record of any shape
\* of settings (every shape is one updateDataSource can store with a $set
\* of settings, which does not minimize).
InitRead ==
  /\ fileConfig \in BOOLEAN
  /\ pending = <<>>
  /\ uniq = 0
  /\ store \in {<<Doc("ds_1", "org_a", s)>> \o rest :
                  s \in SettingsShapes,
                  rest \in {<<>>, <<Doc("ds_1", "org_b", LegacySettings)>>,
                            <<Doc("ds_kx3g", "org_a", ModernSettings)>>}}
  /\ last = NoCall

InitOfRead == InitRead /\ IdleUpgrade /\ IdleField

NextRead == GetById \/ GetByOrganization \/ GetOrganizations

SpecRead == InitOfRead /\ [][NextRead]_vars

NextUpgrade == Upgrade

InitOfUpgrade == InitUpgrade /\ IdleCrud /\ IdleField

SpecUpgrade == InitOfUpgrade /\ [][NextUpgrade]_vars

InitOfField == InitField /\ IdleCrud /\ IdleUpgrade

SpecField == InitOfField /\ [][NextField]_vars

\* ------------------------------------------------------------------ claims
Range(list) == {list[i] : i \in 1..Len(list)}

WriteOps == {"create", "update", "delete"}
ReadOps == {"getById", "getByOrganization"}
\* The steps of createDataSource that leave it waiting in an await.
CreateSteps == {"createCall", "createToken", "createTest", "createInsert"}

ManagedByConfig(op) ==
  CASE op = "create" -> "Cannot add. Data sources managed by config.yml"
    [] op = "update" -> "Cannot update. Data sources managed by config.yml"
    [] op = "delete" -> "Cannot delete. Data sources managed by config.yml"

\* C1: in file-config mode every createDataSource, updateDataSource and
\* deleteDatasourceById call throws its "Cannot ... Data sources managed by
\* config.yml" error before making any other call, and the collection after
\* the call is the collection before it; no createDataSource gets as far
\* as an await.
C1_FileConfigRejectsWrites ==
  [][(usingFileConfig /\ last'.op \in WriteOps \cup CreateSteps)
       => /\ last'.op \in WriteOps
          /\ last'.err = ManagedByConfig(last'.op)
          /\ last'.calls = <<>>
          /\ store' = store
          /\ pending' = <<>>]_vars

\* A delete naming a stored record was refused in file-config mode.
C1_Witness ==
  /\ usingFileConfig
  /\ last.op = "delete"
  /\ last.err = "Cannot delete. Data sources managed by config.yml"
  /\ FirstMatch(store, last.id, last.organization) # 0

\* C2 as stated: no two stored records share (id, organization), whatever
\* calls were made; a createDataSource whose explicit id is stored under the
\* same organization when it is called throws and leaves the collection as it
\* was.
C2_AsStated ==
  /\ []UniqueIndexAllows(store)
  /\ [][\A i \in 1..Len(pending) :
          (/\ pending[i].id # NoId
           /\ pending[i].existed
           /\ \/ pending' = RemoveAt(pending, i)
              \/ Len(pending') = Len(pending) /\ pending'[i] # pending[i])
            => /\ store' = store
               /\ last'.op = "create" => last'.err # ""]_vars

\* C2, amended: no two stored records share (id, organization), whatever
\* calls were made and however they interleave; a createDataSource whose
\* explicit id is stored under the same organization when the database comes
\* to apply its insert (some time after its connection test returned, other
\* calls and other creates of the same id running in between) has the insert
\* refused, leaves the collection as it was and throws.
C2_UniqueIdPerOrganization ==
  /\ []UniqueIndexAllows(store)
  /\ [][\A i \in 1..Len(pending) :
          (/\ pending[i].pc = "create"
           /\ Len(pending') = Len(pending)
           /\ pending'[i] # pending[i]
           /\ pending[i].id # NoId
           /\ FirstMatch(store, pending[i].id, pending[i].organization) # 0)
            => /\ pending'[i].pc = "created"
               /\ pending'[i].answer = "E11000 duplicate key"
               /\ store' = store]_vars
  /\ [][\A i \in 1..Len(pending) :
          (/\ pending[i].pc = "created"
           /\ pending[i].answer # ""
           /\ pending' = RemoveAt(pending, i))
            => (last'.op = "create" /\ last'.err = pending[i].answer
                /\ store' = store)]_vars

\* A create was refused for its duplicate key while the same id is stored
\* under both organizations and another create of that id, called before the
\* refused one was answered, is still waiting.
C2_Witness ==
  /\ last.op = "create"
  /\ last.id # NoId
  /\ last.err = "E11000 duplicate key"
  /\ \E k \in 1..Len(pending) :
       /\ pending[k].id = last.id
       /\ pending[k].organization = last.organization
       /\ pending[k].pc \in {"create", "created"}
  /\ \E i, j \in 1..Len(store) :
       /\ store[i].id = last.id /\ store[j].id = last.id
       /\ store[i].organization # store[j].organization

\* C3: upgradeDatasourceObject is idempotent: applied to what it returned, it
\* returns the same record again.
C3_UpgradeIdempotent ==
  \A i \in 2..Len(returned) :
    returned[i - 1].err = "" => returned[i] = returned[i - 1]

\* The second application returned, after a first one that synthesized both
\* the default ids and the exposure query.
C3_Witness ==
  /\ Len(returned) = 2
  /\ returned[1].err = ""
  /\ returned[2].err = ""
  /\ returned[1].val[1].settings[1].ids = Some(DefaultIds)
  /\ returned[1].val[1].settings[1].queries # None
  /\ returned[1].val[1].settings[1].queries[1].exposure # None
  /\ returned[1].val[1].settings[1].queries[1].exposure[1].main.query
       = "SELECT * FROM experiments"

\* The stored settings of the record a read returned as r.
StoredSettings(r) == store[FirstMatch(store, r.id, r.organization)].settings[1]

\* What a read must have synthesized in r; legacy says whether the stored
\* record calls for an exposure query.
UpgradedOnRead(r, legacy) ==
  LET stored == StoredSettings(r)
      settings == r.settings[1]
  IN /\ settings.ids # None
     /\ stored.ids = None => settings.ids = Some(DefaultIds)
     /\ legacy =>
          /\ settings.queries[1].exposure # None
          /\ LET main == settings.queries[1].exposure[1].main
             IN /\ main.query = stored.queries[1].experimentsQuery[1]
                /\ main.ids = <<"user_id", "anonymous_id">>
                /\ main.dimensions =
                     IF stored.experimentDimensions = None THEN <<>>
                     ELSE stored.experimentDimensions[1]

\* experimentsQuery is there (whatever its text) and exposure is not.
HasExperimentsQuery(stored) ==
  /\ stored.queries # None
  /\ stored.queries[1].experimentsQuery # None
  /\ stored.queries[1].exposure = None

\* experimentsQuery is there with a text that is not empty, and exposure is
\* not.
HasNonEmptyExperimentsQuery(stored) ==
  /\ HasExperimentsQuery(stored)
  /\ stored.queries[1].experimentsQuery[1] # ""

\* C4 as stated: in database mode every record getDataSourceById and
\* getDataSourcesByOrganization return has settings.ids (the defaults when
\* the stored record had none) and, whenever the stored record has
\* settings.queries.experimentsQuery but no exposure, has exposure.main built
\* from it.
C4_AsStated ==
  (~usingFileConfig /\ last.op \in ReadOps /\ last.err = "")
    => \A r \in Range(last.ret) : 
         UpgradedOnRead(r, HasExperimentsQuery(StoredSettings(r)))

\* C4, amended: the same, with exposure.main synthesized whenever the stored
\* record has a non-empty settings.queries.experimentsQuery but no exposure.
C4_ReadsUpgrade ==
  (~usingFileConfig /\ last.op \in ReadOps /\ last.err = "")
    => \A r \in Range(last.ret) : 
         UpgradedOnRead(r, HasNonEmptyExperimentsQuery(StoredSettings(r)))

\* getDataSourcesByOrganization returned a record stored without ids, with a
\* legacy experimentsQuery and with experimentDimensions.
C4_Witness ==
  /\ ~usingFileConfig
  /\ last.op = "getByOrganization"
  /\ last.err = ""
  /\ \E r \in Range(last.ret) :
       /\ StoredSettings(r).ids = None
       /\ HasNonEmptyExperimentsQuery(StoredSettings(r))
       /\ StoredSettings(r).experimentDimensions = Some(<<"country">>)

\* The position of a call in the calls a function made, 0 when it is not
\* among them.
Position(calls, name) ==
  IF \E i \in 1..Len(calls) : calls[i] = name
  THEN CHOOSE i \in 1..Len(calls) : calls[i] = name
  ELSE 0

\* C5: a record enters the collection only as the insert of a
\* createDataSource for which testDataSourceConnection, on that very object,
\* has returned before; when the test throws, createDataSource throws there
\* and then, hands nothing to the database, and the collection is unchanged.
C5_CreateOnlyAfterTest ==
  [][/\ Len(store') > Len(store) =>
          \E i \in 1..Len(pending) :
            /\ pending[i].pc = "create"
            /\ pending[i].tested
            /\ store' = Append(store, Saved(pending[i].ds[1]))
            /\ Position(pending[i].calls, "testDataSourceConnection") > 0
            /\ Position(pending[i].calls, "create")
                 = Position(pending[i].calls, "testDataSourceConnection") + 1
     /\ (last'.op \in CreateSteps \cup {"create"} /\ store' # store) =>
          Len(store') > Len(store)
     /\ \A i \in 1..Len(pending') :
          pending'[i].pc \in {"create", "created"} => pending'[i].tested
     /\ last'.test = "threw" =>
          /\ last'.op = "create"
          /\ last'.err # ""
          /\ store' = store
          /\ Len(pending') < Len(pending)]_vars

\* A create whose connection test threw, with a record already stored.
C5_Witness ==
  /\ last.op = "create"
  /\ last.test = "threw"
  /\ last.err = "connection failed"
  /\ last.calls # <<>>
  /\ last.calls[Len(last.calls)] = "testDataSourceConnection"
  /\ Len(store) > 0

\* What updateDataSource must do to document k of the collection, when it is
\* to write the update.
Merged(k, i) ==
  \A f \in Fields :
    store'[k][f] = IF k = i /\ f \in Named(last'.updates)
                   THEN last'.updates[f][1]
                   ELSE store[k][f]

\* C6 as stated: in database mode updateDataSource sets, in the record
\* matching (id, organization), each field named in updates to the given
\* value and changes nothing else; with no matching record the collection is
\* unchanged.
C6_AsStated ==
  [][(~usingFileConfig /\ last'.op = "update") =>
       LET i == FirstMatch(store, last'.id, last'.organization)
       IN /\ Len(store') = Len(store)
          /\ \A k \in 1..Len(store) : Merged(k, i)]_vars

\* C6, amended: the same, unless the update would give the record the
\* (id, organization) of another stored record: then updateDataSource throws
\* the duplicate key error and the collection is unchanged.
C6_UpdateMergesNamedFields ==
  [][(~usingFileConfig /\ last'.op = "update") =>
       LET i == FirstMatch(store, last'.id, last'.organization)
       IN IF i # 0 /\ DuplicateKey(store, Set(store[i], last'.updates), i)
          THEN last'.err = "E11000 duplicate key" /\ store' = store
          ELSE /\ last'.err = ""
               /\ Len(store') = Len(store)
               /\ \A k \in 1..Len(store) : Merged(k, i)]_vars

\* An update renamed one of two stored records.
C6_Witness ==
  /\ ~usingFileConfig
  /\ last.op = "update"
  /\ last.matched = 1
  /\ last.err = ""
  /\ last.updates.name = Some("renamed")
  /\ Len(store) = 2
  /\ \E k \in 1..2 : store[k].name = "renamed" /\ store[k].dateUpdated = 2
  /\ \E k \in 1..2 : store[k].name # "renamed"

\* C7: in database mode, once deleteDatasourceById(id, organization) has
\* completed, getDataSourceById(id, organization) returns null, no record
\* getDataSourcesByOrganization(organization) returns has that id, and the
\* records with another id or another organization are stored as before.
C7_DeleteRemovesOnlyTheRecord ==
  [][\A id \in Ids, organization \in Orgs :
       (/\ ~usingFileConfig
        /\ last'.op = "delete"
        /\ last'.id = id
        /\ last'.organization = organization) =>
         LET Others(coll) ==
               SelectSeq(coll, LAMBDA d : ~Matches(d, id, organization))
         IN /\ last'.err = ""
            /\ getDataSourceById(id, organization)' = Returned(<<>>)
            /\ \A r \in Range(getDataSourcesByOrganization(organization)'.ret) :
                 r.id # id
            /\ Others(store') = Others(store)]_vars

\* A delete removed a record while another record of the same organization
\* stays stored.
C7_Witness ==
  /\ ~usingFileConfig
  /\ last.op = "delete"
  /\ last.matched = 1
  /\ \E k \in 1..Len(store) :
       store[k].id # last.id /\ store[k].organization = last.organization

\* C9: in database mode getDataSourceById and getDataSourcesByOrganization
\* return only records of the organization asked for, and updateDataSource
\* and deleteDatasourceById leave every record of another organization
\* stored as it was, also one with the same id.
C9_OrganizationIsolation ==
  [][~usingFileConfig =>
       /\ last'.op \in ReadOps =>
            \A r \in Range(last'.ret) : r.organization = last'.organization
       /\ last'.op \in {"update", "delete"} =>
            \A k \in 1..Len(store) :
              store[k].organization # last'.organization
                => \E m \in 1..Len(store') : store'[m] = store[k]]_vars

\* An update changed a record whose id is also stored under the other
\* organization.
C9_Witness ==
  /\ ~usingFileConfig
  /\ last.op = "update"
  /\ last.matched = 1
  /\ last.err = ""
  /\ last.updates.name # None
  /\ \E k \in 1..Len(store) :
       /\ store[k].id = last.id
       /\ store[k].organization # last.organization
       /\ store[k].name # "renamed"

\* Whether the step is a key or blur event that commits: the pending text is
\* not empty and the key, if any, is comma, Enter, Tab or space.
Commits ==
  /\ inputValue # ""
  /\ \/ event'.kind = "blur"
     \/ event'.kind = "keydown" /\ event'.key \in CommitKeys

\* C8: with a non-empty pending text, comma, Enter, Tab, space and blur call
\* onChange with the value list followed by the pending text and reset the
\* pending text to ""; with each list applied by the parent, the value is the
\* initial list followed by the committed tokens in commit order.
C8_CommitAppendsPendingText ==
  [][/\ Commits =>
          /\ event'.onChange = Some(value \o <<inputValue>>)
          /\ inputValue' = ""
     /\ value' = base' \o commits']_vars

\* Comma committed a second token after an initial list that was not empty.
C8_Witness ==
  /\ event.kind = "keydown"
  /\ event.key = ","
  /\ event.onChange = Some(value)
  /\ inputValue = ""
  /\ base # <<>>
  /\ Len(commits) = 2
  /\ commits[1] # commits[2]

\* C10: with an empty pending text, a key press and a blur call no onChange
\* and leave the pending text and the value as they are; no committed token
\* is the empty string.
C10_EmptyInputCommitsNothing ==
  [][/\ (inputValue = "" /\ event'.kind \in {"keydown", "blur"}) =>
          /\ event'.onChange = None
          /\ inputValue' = inputValue
          /\ value' = value
     /\ \A i \in 1..Len(commits') : commits'[i] # ""]_vars

\* A blur with nothing pending, on a list that holds tokens.
C10_Witness ==
  /\ event.kind = "blur"
  /\ event.onChange = None
  /\ inputValue = ""
  /\ value # <<>>

====
